---- MODULE Spec2Model ----
(***************************************************************************)
(* Model of src/_lovely_tensors_hook.py: the start-up hook that patches    *)
(* torch once, either directly (torch already in sys.modules) or through a *)
(* one-shot meta-path finder whose wrapping loader runs the patch trigger  *)
(* right after torch's own module code has executed.                       *)
(*                                                                         *)
(* The state is the interpreter state the hook reads and writes:           *)
(* os.environ, sys.modules, sys.meta_path, sys.stderr, plus a record of    *)
(* what the operation that completed last did, step by step.               *)
(***************************************************************************)
EXTENDS Integers, Sequences, FiniteSets, TLC

VARIABLES
    environ,        \* os.environ restricted to LOVELY_TENSORS
    modules,        \* sys.modules: module name -> entry
    meta_path,      \* sys.meta_path: sequence of finder objects
    on_path,        \* what the default finders can locate for "torch"
    stderr,         \* sys.stderr: the exceptions diagnosed so far, in order
    nfinders,       \* _TorchFinder instances constructed so far
    patchCalls,     \* invocations of the external patch routine
    applied,        \* invocations that returned and added the marker
    boot,           \* branch taken by the first run of the start-up code
    failed,         \* the patch routine raised in or after the last start-up run
    last,           \* the operation that completed last, and what it did
    prev            \* summary of the operation that completed before it

vars == <<environ, modules, meta_path, on_path, stderr, nfinders, patchCalls,
          applied, boot, failed, last, prev>>

----------------------------------------------------------------------------
(* Bounds of the exploration.                                              *)

MaxFinders == 2        \* _TorchFinder instances ever constructed
MaxPatchCalls == 2     \* invocations of the external patch routine
MaxWrapDepth == 2      \* nesting of _WrappedTorchLoader around a loader
MaxRecursion == 3      \* nested find_spec calls before RecursionError

----------------------------------------------------------------------------
(* Strings are sequences of one-character strings, so that strip() and     *)
(* lower() are computed rather than assumed.                               *)

Whitespace == {" ", "\t", "\n"}

LowerChar(c) ==
    CASE c = "T" -> "t"
      [] c = "R" -> "r"
      [] c = "U" -> "u"
      [] c = "E" -> "e"
      [] c = "Y" -> "y"
      [] c = "S" -> "s"
      [] c = "O" -> "o"
      [] c = "N" -> "n"
      [] OTHER -> c

\* str.lower()
Lower(s) == [i \in 1..Len(s) |-> LowerChar(s[i])]

RECURSIVE LStrip(_)
LStrip(s) ==
    IF s # <<>> /\ Head(s) \in Whitespace THEN LStrip(Tail(s)) ELSE s

RECURSIVE RStrip(_)
RStrip(s) ==
    IF s # <<>> /\ s[Len(s)] \in Whitespace
    THEN RStrip(SubSeq(s, 1, Len(s) - 1))
    ELSE s

\* str.strip()
Strip(s) == RStrip(LStrip(s))

\* The literal set {"1", "true", "yes"} of line 79.
TruthySet == { <<"1">>, <<"t", "r", "u", "e">>, <<"y", "e", "s">> }

\* Values LOVELY_TENSORS takes in the explored processes.
FlagValues ==
    { <<>>,
      <<"1">>, <<" ", "1", "\n">>, <<"0">>, <<"1", "1">>, <<"1", " ", "1">>,
      <<"t", "r", "u", "e">>, <<"T", "R", "U", "E">>, <<"T", "r", "u", "e", " ">>,
      <<"t", "r", " ", "u", "e">>, <<"t">>,
      <<"y", "e", "s">>, <<"\t", "Y", "E", "S">>, <<"y">>,
      <<"o", "n">>, <<"O", "N">>, <<"n", "o">> }

\* os.environ.get(key, default)
EnvGet(env, key, default) == IF key \in DOMAIN env THEN env[key] ELSE default

\* The condition without strip().
FlagEnabled_no_strip(env) ==
    Lower(EnvGet(env, "LOVELY_TENSORS", <<>>)) \in TruthySet

\* The condition of line 79.
FlagEnabled(env) ==
    Lower(Strip(EnvGet(env, "LOVELY_TENSORS", <<>>))) \in TruthySet

----------------------------------------------------------------------------
(* Objects.                                                                *)

Target == "torch"
OtherNames == {"numpy"}
Names == {Target} \cup OtherNames

\* Loaders.  A wrapping loader holds the loader it decorates.
NoLoader == [cls |-> "None"]
RealLoader == [cls |-> "SourceFileLoader"]

\* _WrappedTorchLoader.__init__
WrappedTorchLoader(real_loader) ==
    [cls |-> "_WrappedTorchLoader", real_loader |-> real_loader]

IsWrapped(loader) == loader.cls = "_WrappedTorchLoader"

RECURSIVE WrapDepth(_)
WrapDepth(loader) ==
    IF IsWrapped(loader) THEN 1 + WrapDepth(loader.real_loader) ELSE 0

\* Module specs; NoSpec is the value None.
NoSpec == [found |-> FALSE, name |-> "None", loader |-> NoLoader]
ModuleSpec(name, loader) == [found |-> TRUE, name |-> name, loader |-> loader]

\* sys.modules entries.  kind: "absent" (no key), "None" (the key maps to
\* None), "object" (a value that is no ModuleType), "module".  Tensor is the
\* module attribute: "missing", "None" or "type"; rgb says whether that type
\* has the attribute rgb.
Absent == [kind |-> "absent", Tensor |-> "missing", rgb |-> FALSE, spec |-> NoSpec]
Entry(kind, tensor, rgb, spec) ==
    [kind |-> kind, Tensor |-> tensor, rgb |-> rgb, spec |-> spec]

\* Finder objects of sys.meta_path.
Finder(cls, id) == [cls |-> cls, id |-> id]
TorchFinder(id) == Finder("_TorchFinder", id)
IsTorchFinder(f) == f.cls = "_TorchFinder"
DefaultMetaPath == << Finder("BuiltinImporter", 0), Finder("PathFinder", 0) >>

\* Exceptions the external patch routine (or its import) raises.
PatchErrors == {"RuntimeError"}
NoExc == "none"

----------------------------------------------------------------------------
(* State probes.                                                           *)

\* isinstance(x, ModuleType)
IsModuleType(entry) == entry.kind = "module"

\* A probe that takes any entry of sys.modules for a loaded torch.
torch_loaded_any_entry(mods) == mods[Target].kind # "absent"

torch_loaded(mods) == IsModuleType(mods[Target])

torch_patched(mods) ==
    LET mod == mods[Target]
        \* getattr(mod, "Tensor", None)
        T == IF mod.Tensor = "missing" THEN "None" ELSE mod.Tensor
    IN  IF ~IsModuleType(mod) THEN FALSE
        ELSE IF T = "None" THEN FALSE
        ELSE mod.rgb  \* hasattr(T, "rgb")

----------------------------------------------------------------------------
(* The external patch routine, lovely_tensors.monkey_patch(), reached by   *)
(* `import lovely_tensors` (lines 36-37).  It is opaque: it either adds    *)
(* the marker attribute rgb to torch.Tensor and returns, or raises and     *)
(* leaves the type without the marker.  It can only succeed when there is  *)
(* a torch module with a Tensor type to patch; without one the attempt to  *)
(* set the attribute raises.                                               *)

Outcomes == {"ok"} \cup PatchErrors

PatchOutcomes(mods) ==
    IF IsModuleType(mods[Target]) /\ mods[Target].Tensor = "type"
    THEN Outcomes
    ELSE PatchErrors

monkey_patch(mods, outcome) ==
    IF outcome \in PatchOutcomes(mods)
    THEN IF outcome = "ok"
         THEN [modules |-> [mods EXCEPT ![Target].rgb = TRUE], raised |-> NoExc]
         ELSE [modules |-> mods, raised |-> outcome]
    ELSE [modules |-> mods, raised |-> "AttributeError"]

----------------------------------------------------------------------------
(* Patch trigger.  The result says what one call did: the registry after   *)
(* it, how often it invoked the patch routine, how often that added the    *)
(* marker, the diagnostics it printed, the probes it called and the        *)
(* exception that left it.                                                 *)

TriggerResult(mods, calls, applications, diags, raised) ==
    [modules |-> mods, calls |-> calls, applications |-> applications,
     diags |-> diags, probes |-> 1, raised |-> raised]

\* The try statement of lines 35-48 around the patch routine's result r:
\* except Exception as e: print(..., file=sys.stderr); raise
try_patch(r) ==
    IF r.raised # NoExc
    THEN TriggerResult(r.modules, 1, 0, <<r.raised>>, r.raised)
    ELSE TriggerResult(r.modules, 1, 1, <<>>, NoExc)

\* A trigger that prints the diagnostic and does not re-raise.
after_import_torch_swallow(mods, outcome) ==
    IF ~torch_patched(mods)
    THEN [try_patch(monkey_patch(mods, outcome)) EXCEPT !.raised = NoExc]
    ELSE TriggerResult(mods, 0, 0, <<>>, NoExc)

\* A trigger whose guard is inverted: it patches only what is patched.
after_import_torch_inverted(mods, outcome) ==
    IF torch_patched(mods)
    THEN try_patch(monkey_patch(mods, outcome))
    ELSE TriggerResult(mods, 0, 0, <<>>, NoExc)

\* A trigger without the torch_patched() guard.
after_import_torch_unguarded(mods, outcome) ==
    try_patch(monkey_patch(mods, outcome))

after_import_torch(mods, outcome) ==
    IF ~torch_patched(mods)
    THEN try_patch(monkey_patch(mods, outcome))
    ELSE TriggerResult(mods, 0, 0, <<>>, NoExc)

----------------------------------------------------------------------------
(* Resolution.  A lookup result carries the spec (or NoSpec), the          *)
(* exception raised, the registries as the lookup left them, whether the   *)
(* spec is the __spec__ object of a module in sys.modules, and how many    *)
(* times a _TorchFinder was entered for the target name.                   *)

Lookup(spec, raised, mods, mp, aliased, consults) ==
    [spec |-> spec, raised |-> raised, modules |-> mods, meta_path |-> mp,
     aliased |-> aliased, consults |-> consults]

AddConsults(r, n) == [r EXCEPT !.consults = @ + n]

\* What the default path-based finder locates for a name.
Locate(fullname, avail) ==
    IF fullname = Target
    THEN CASE avail = "package" -> ModuleSpec(fullname, RealLoader)
           [] avail = "namespace" -> ModuleSpec(fullname, NoLoader)
           [] OTHER -> NoSpec
    ELSE ModuleSpec(fullname, RealLoader)

\* find_spec of a finder that is not ours.
default_find_spec(f, fullname, avail) ==
    IF f.cls = "PathFinder" THEN Locate(fullname, avail) ELSE NoSpec

\* list.remove(x): drops the first element equal to x, ValueError if none.
ListRemove(seq, x) ==
    IF \E i \in 1..Len(seq) : seq[i] = x
    THEN LET i == CHOOSE k \in 1..Len(seq) :
                      seq[k] = x /\ \A j \in 1..(k - 1) : seq[j] # x
         IN [seq |-> SubSeq(seq, 1, i - 1) \o SubSeq(seq, i + 1, Len(seq)),
             raised |-> NoExc]
    ELSE [seq |-> seq, raised |-> "ValueError"]

\* Lines 69-72: try: sys.meta_path.remove(self) / except ValueError: pass
remove_self(mp, self) == ListRemove(mp, self).seq

\* A finder that wraps the loader of every spec found, a missing loader
\* included.
wrap_real_spec_any_loader(real) ==
    IF real.raised # NoExc \/ ~real.spec.found
    THEN AddConsults(real, 1)
    ELSE [real EXCEPT
            !.spec.loader = WrappedTorchLoader(@),
            !.modules = IF real.aliased
                        THEN [@ EXCEPT ![real.spec.name].spec.loader =
                                           WrappedTorchLoader(@)]
                        ELSE @,
            !.consults = @ + 1]

\* Lines 74-77, given what importlib.util.find_spec did: a missing spec, a
\* spec without loader and an exception pass through; any other spec gets
\* its loader wrapped, in place.
wrap_real_spec(real) ==
    IF real.raised # NoExc
    THEN AddConsults(real, 1)
    ELSE IF ~real.spec.found \/ real.spec.loader = NoLoader
    THEN AddConsults(real, 1)
    ELSE [real EXCEPT
            !.spec.loader = WrappedTorchLoader(@),
            !.modules = IF real.aliased
                        THEN [@ EXCEPT ![real.spec.name].spec.loader =
                                           WrappedTorchLoader(@)]
                        ELSE @,
            !.consults = @ + 1]

RECURSIVE WalkMetaPath(_, _, _, _, _, _)

\* importlib.util.find_spec(fullname) for a top-level name (line 73): the
\* __spec__ of an entry of sys.modules if there is one, else the walk over
\* sys.meta_path.
util_find_spec(fullname, mods, mp, avail, fuel) ==
    IF mods[fullname].kind # "absent"
    THEN IF mods[fullname].kind = "None"
         THEN Lookup(NoSpec, NoExc, mods, mp, FALSE, 0)
         ELSE IF mods[fullname].kind = "object" \/ ~mods[fullname].spec.found
         THEN Lookup(NoSpec, "ValueError", mods, mp, FALSE, 0)
         ELSE Lookup(mods[fullname].spec, NoExc, mods, mp, TRUE, 0)
    ELSE WalkMetaPath(1, fullname, mods, mp, avail, fuel)

\* A finder that removes itself whatever name it is asked for.
find_spec_remove_always(self, fullname, mods, mp, avail, fuel) ==
    IF fullname # Target
    THEN Lookup(NoSpec, NoExc, mods, remove_self(mp, self), FALSE, 0)
    ELSE wrap_real_spec(
             util_find_spec(fullname, mods, remove_self(mp, self), avail, fuel))

\* A finder that is out of sys.meta_path only while it delegates.
find_spec_reinsert(self, fullname, mods, mp, avail, fuel) ==
    IF fullname # Target
    THEN Lookup(NoSpec, NoExc, mods, mp, FALSE, 0)
    ELSE [wrap_real_spec(
              util_find_spec(fullname, mods, remove_self(mp, self), avail, fuel))
            EXCEPT !.meta_path = mp]

\* A finder whose removal is not guarded: the ValueError of list.remove
\* leaves find_spec.
find_spec_remove_unguarded(self, fullname, mods, mp, avail, fuel) ==
    IF fullname # Target
    THEN Lookup(NoSpec, NoExc, mods, mp, FALSE, 0)
    ELSE IF ListRemove(mp, self).raised # NoExc
    THEN Lookup(NoSpec, ListRemove(mp, self).raised, mods, mp, FALSE, 1)
    ELSE wrap_real_spec(
             util_find_spec(fullname, mods, remove_self(mp, self), avail, fuel))

\* A finder that stays in sys.meta_path while it delegates.
find_spec_no_remove(self, fullname, mods, mp, avail, fuel) ==
    IF fullname # Target
    THEN Lookup(NoSpec, NoExc, mods, mp, FALSE, 0)
    ELSE wrap_real_spec(util_find_spec(fullname, mods, mp, avail, fuel))

\* A finder that removes itself only once the resolution found a spec.
find_spec_remove_on_success(self, fullname, mods, mp, avail, fuel) ==
    IF fullname # Target
    THEN Lookup(NoSpec, NoExc, mods, mp, FALSE, 0)
    ELSE LET real == wrap_real_spec(
                         util_find_spec(fullname, mods, remove_self(mp, self),
                                        avail, fuel))
         IN  IF real.raised = NoExc /\ real.spec.found
             THEN real
             ELSE [real EXCEPT !.meta_path = mp]

\* _TorchFinder.find_spec(self, fullname, path, target)
find_spec(self, fullname, mods, mp, avail, fuel) ==
    IF fullname # Target
    THEN Lookup(NoSpec, NoExc, mods, mp, FALSE, 0)
    ELSE wrap_real_spec(
             util_find_spec(fullname, mods, remove_self(mp, self), avail, fuel))

\* One finder of the walk is asked; a _TorchFinder entered deeper than the
\* interpreter's recursion limit raises RecursionError.
consult_finder(f, fullname, mods, mp, avail, fuel) ==
    IF IsTorchFinder(f)
    THEN IF fuel = 0
         THEN Lookup(NoSpec, "RecursionError", mods, mp, FALSE, 0)
         ELSE find_spec(f, fullname, mods, mp, avail, fuel - 1)
    ELSE Lookup(default_find_spec(f, fullname, avail), NoExc, mods, mp, FALSE, 0)

\* The walk goes on after the finder at position i answered r.
walk_on(i, r, fullname, avail, fuel) ==
    IF r.raised # NoExc \/ r.spec.found
    THEN r
    ELSE AddConsults(
             WalkMetaPath(i + 1, fullname, r.modules, r.meta_path, avail, fuel),
             r.consults)

\* importlib._bootstrap._find_spec: `for finder in sys.meta_path`, over the
\* live list, from position i on; the first spec found or exception ends it.
WalkMetaPath(i, fullname, mods, mp, avail, fuel) ==
    IF i > Len(mp)
    THEN Lookup(NoSpec, NoExc, mods, mp, FALSE, 0)
    ELSE walk_on(i, consult_finder(mp[i], fullname, mods, mp, avail, fuel),
                 fullname, avail, fuel)

----------------------------------------------------------------------------
(* What one operation did.  Every operation below returns such a record:   *)
(* the registries as it leaves them, the exception that left it, the       *)
(* branch it took, the ordered events of a module execution, and counts    *)
(* of the patch routine's invocations, of the marker's additions, of the   *)
(* trigger's and the probes' calls, the diagnostics printed, the finder    *)
(* instances constructed, the consultations of a _TorchFinder for the      *)
(* target name and the spec returned.                                      *)

Quiet(mods, mp) ==
    [modules |-> mods, meta_path |-> mp, raised |-> NoExc, how |-> "quiet",
     events |-> <<>>, calls |-> 0, applications |-> 0, triggers |-> 0,
     probes |-> 0, diags |-> <<>>, created |-> 0, consults |-> 0,
     spec |-> NoSpec]

\* An operation r that then called the patch trigger, which did t.
ThenTrigger(r, t) ==
    [r EXCEPT
        !.modules = t.modules,
        !.raised = t.raised,
        !.events = @ \o <<"trigger">> \o (IF t.calls > 0 THEN <<"patch">> ELSE <<>>),
        !.calls = @ + t.calls,
        !.applications = @ + t.applications,
        !.triggers = @ + 1,
        !.probes = @ + t.probes,
        !.diags = @ \o t.diags]

\* A trigger call that also takes every _TorchFinder out of sys.meta_path.
call_after_import_torch_cleanup(mods, mp, po) ==
    ThenTrigger([Quiet(mods, SelectSeq(mp, LAMBDA f : ~IsTorchFinder(f)))
                    EXCEPT !.how = "trigger"],
                after_import_torch(mods, po))

\* The patch trigger called as an operation of its own.
call_after_import_torch(mods, mp, po) ==
    ThenTrigger([Quiet(mods, mp) EXCEPT !.how = "trigger"],
                after_import_torch(mods, po))

\* The real loader's exec_module: runs the module's top-level code, which
\* defines torch.Tensor (ro = "tensor"), defines no such type
\* (ro = "no_tensor") or raises (ro = "raise").
RealOutcomes == {"tensor", "no_tensor", "raise"}

real_exec_module(name, mods, mp, ro) ==
    IF ro = "raise"
    THEN [Quiet(mods, mp) EXCEPT !.raised = "ExecError",
                                 !.events = <<"exec_start", "exec_raise">>]
    ELSE [Quiet(IF name = Target /\ ro = "tensor"
                THEN [mods EXCEPT ![name].Tensor = "type"]
                ELSE mods, mp)
            EXCEPT !.events = <<"exec_start", "exec_return">>]

\* Line 62 with the trigger's exception caught and dropped.
then_after_import_torch_swallow(real, po) ==
    IF real.raised # NoExc
    THEN real
    ELSE [ThenTrigger(real, after_import_torch(real.modules, po)) EXCEPT
             !.raised = NoExc]

\* Line 62, reached only when line 61 returned: real is what the real
\* loader's exec_module did.
then_after_import_torch(real, po) ==
    IF real.raised # NoExc
    THEN real
    ELSE ThenTrigger(real, after_import_torch(real.modules, po))

\* A wrapping loader that calls the trigger before it delegates.
exec_module_trigger_first(loader, name, mods, mp, ro, po) ==
    IF ~IsWrapped(loader)
    THEN real_exec_module(name, mods, mp, ro)
    ELSE LET first == ThenTrigger(Quiet(mods, mp), after_import_torch(mods, po)) IN
         IF first.raised # NoExc
         THEN first
         ELSE [real_exec_module(name, first.modules, mp, ro) EXCEPT
                  !.events = first.events \o @, !.calls = first.calls,
                  !.applications = first.applications, !.triggers = 1,
                  !.probes = first.probes]

\* _WrappedTorchLoader.exec_module(self, module), for any loader: a loader
\* that is no wrapper executes the module itself.
RECURSIVE exec_module(_, _, _, _, _, _)
exec_module(loader, name, mods, mp, ro, po) ==
    IF ~IsWrapped(loader)
    THEN real_exec_module(name, mods, mp, ro)
    ELSE then_after_import_torch(
             exec_module(loader.real_loader, name, mods, mp, ro, po), po)

\* The end of an import whose module execution did e: the module leaves
\* sys.modules again if the execution raised.
finish_import(name, e) ==
    IF e.raised # NoExc
    THEN [e EXCEPT !.modules = [@ EXCEPT ![name] = Absent], !.how = "exec_failed"]
    ELSE [e EXCEPT !.how = "executed"]

\* The import goes on with what the walk over sys.meta_path found (r): the
\* new module is put into sys.modules and executed by spec.loader.
load_module(name, r, ro, po) ==
    IF r.raised # NoExc
    THEN [Quiet(r.modules, r.meta_path) EXCEPT
             !.raised = r.raised, !.how = "lookup_raised",
             !.consults = r.consults]
    ELSE IF ~r.spec.found
    THEN [Quiet(r.modules, r.meta_path) EXCEPT
             !.raised = "ModuleNotFoundError", !.how = "not_found",
             !.consults = r.consults]
    ELSE IF r.spec.loader = NoLoader
    THEN [Quiet([r.modules EXCEPT
                    ![name] = Entry("module", "missing", FALSE, r.spec)],
                r.meta_path)
            EXCEPT !.how = "namespace", !.consults = r.consults, !.spec = r.spec]
    ELSE [finish_import(name,
              exec_module(r.spec.loader, name,
                          [r.modules EXCEPT
                              ![name] = Entry("module", "missing", FALSE, r.spec)],
                          r.meta_path, ro, po))
            EXCEPT !.consults = r.consults, !.spec = r.spec]

\* importlib's `import name` for a top-level name: the entry of sys.modules
\* if there is one; else the walk over sys.meta_path and the load.
import_module(name, mods, mp, avail, ro, po) ==
    IF mods[name].kind # "absent"
    THEN IF mods[name].kind = "None"
         THEN [Quiet(mods, mp) EXCEPT !.raised = "ModuleNotFoundError",
                                      !.how = "blocked"]
         ELSE [Quiet(mods, mp) EXCEPT !.how = "cached"]
    ELSE load_module(name, WalkMetaPath(1, name, mods, mp, avail, MaxRecursion),
                     ro, po)

\* A lookup r as an operation of its own.
LookupOp(r) ==
    [Quiet(r.modules, r.meta_path) EXCEPT
        !.raised = r.raised, !.how = "find_spec", !.consults = r.consults,
        !.spec = r.spec]

\* importlib.util.find_spec(name) called by user code.
user_find_spec(name, mods, mp, avail) ==
    LookupOp(util_find_spec(name, mods, mp, avail, MaxRecursion))

\* finder.find_spec(name, None) called on a finder object, in or out of
\* sys.meta_path.
call_find_spec(self, name, mods, mp, avail) ==
    LookupOp(find_spec(self, name, mods, mp, avail, MaxRecursion))

\* Start-up code that inserts the finder before it looks at torch.
startup_code_install_first(env, mods, mp, nf, po) ==
    IF FlagEnabled(env)
    THEN IF torch_loaded(mods)
         THEN ThenTrigger([Quiet(mods, <<TorchFinder(nf + 1)>> \o mp) EXCEPT
                              !.how = "direct", !.probes = 1, !.created = 1],
                          after_import_torch(mods, po))
         ELSE IF ~\E i \in 1..Len(mp) : IsTorchFinder(mp[i])
         THEN [Quiet(mods, <<TorchFinder(nf + 1)>> \o mp) EXCEPT
                  !.how = "installed", !.probes = 1, !.created = 1]
         ELSE [Quiet(mods, mp) EXCEPT !.how = "present", !.probes = 1]
    ELSE [Quiet(mods, mp) EXCEPT !.how = "disabled"]

\* Start-up code that installs the finder instance made last, if there is
\* one, instead of a new one.
startup_code_reuse_finder(env, mods, mp, nf, po) ==
    IF FlagEnabled(env)
    THEN IF torch_loaded(mods)
         THEN ThenTrigger([Quiet(mods, mp) EXCEPT !.how = "direct", !.probes = 1],
                          after_import_torch(mods, po))
         ELSE IF ~\E i \in 1..Len(mp) : IsTorchFinder(mp[i])
         THEN IF nf = 0
              THEN [Quiet(mods, <<TorchFinder(1)>> \o mp) EXCEPT
                       !.how = "installed", !.probes = 1, !.created = 1]
              ELSE [Quiet(mods, <<TorchFinder(nf)>> \o mp) EXCEPT
                       !.how = "installed", !.probes = 1]
         ELSE [Quiet(mods, mp) EXCEPT !.how = "present", !.probes = 1]
    ELSE [Quiet(mods, mp) EXCEPT !.how = "disabled"]

\* Start-up code that appends the finder to sys.meta_path.
startup_code_append(env, mods, mp, nf, po) ==
    IF FlagEnabled(env)
    THEN IF torch_loaded(mods)
         THEN ThenTrigger([Quiet(mods, mp) EXCEPT !.how = "direct", !.probes = 1],
                          after_import_torch(mods, po))
         ELSE IF ~\E i \in 1..Len(mp) : IsTorchFinder(mp[i])
         THEN [Quiet(mods, Append(mp, TorchFinder(nf + 1))) EXCEPT
                  !.how = "installed", !.probes = 1, !.created = 1]
         ELSE [Quiet(mods, mp) EXCEPT !.how = "present", !.probes = 1]
    ELSE [Quiet(mods, mp) EXCEPT !.how = "disabled"]

\* Start-up code that inserts a finder without looking for one.
startup_code_unguarded(env, mods, mp, nf, po) ==
    IF FlagEnabled(env)
    THEN IF torch_loaded(mods)
         THEN ThenTrigger([Quiet(mods, mp) EXCEPT !.how = "direct", !.probes = 1],
                          after_import_torch(mods, po))
         ELSE [Quiet(mods, <<TorchFinder(nf + 1)>> \o mp) EXCEPT
                  !.how = "installed", !.probes = 1, !.created = 1]
    ELSE [Quiet(mods, mp) EXCEPT !.how = "disabled"]

\* The module's top-level code, lines 79-83.
startup_code(env, mods, mp, nf, po) ==
    IF FlagEnabled(env)
    THEN IF torch_loaded(mods)
         THEN ThenTrigger([Quiet(mods, mp) EXCEPT !.how = "direct", !.probes = 1],
                          after_import_torch(mods, po))
         ELSE IF ~\E i \in 1..Len(mp) : IsTorchFinder(mp[i])
         THEN [Quiet(mods, <<TorchFinder(nf + 1)>> \o mp) EXCEPT
                  !.how = "installed", !.probes = 1, !.created = 1]
         ELSE [Quiet(mods, mp) EXCEPT !.how = "present", !.probes = 1]
    ELSE [Quiet(mods, mp) EXCEPT !.how = "disabled"]

----------------------------------------------------------------------------
(* The state machine.                                                      *)

NoOp ==
    [op |-> "none", name |-> "none", self |-> 0, exc |-> NoExc,
     how |-> "none", events |-> <<>>, calls |-> 0, applications |-> 0,
     triggers |-> 0, probes |-> 0, diags |-> <<>>, created |-> 0,
     consults |-> 0, spec |-> NoSpec, meta_path0 |-> <<>>,
     modules0 |-> [n \in Names |-> Absent], failed0 |-> FALSE]

\* What the next operation remembers of the one before it: whether it was a
\* direct call of the patch trigger, and how that call ended.
Summary(o) ==
    IF o.op # "trigger" THEN "other"
    ELSE IF o.exc # NoExc THEN "trigger_raised"
    ELSE IF o.calls > 0 THEN "trigger_patched"
    ELSE "trigger_noop"

\* What sys.modules holds under "torch" when the process starts: nothing,
\* None, an object that is no module, or a module (with or without a
\* Tensor, patched or not, with or without a __spec__).
TorchEntries ==
    {Absent, Entry("None", "missing", FALSE, NoSpec),
     Entry("object", "missing", FALSE, NoSpec),
     Entry("module", "type", FALSE, NoSpec)}
    \cup { Entry("module", t, FALSE, ModuleSpec(Target, RealLoader)) :
             t \in {"missing", "None", "type"} }
    \cup { Entry("module", "type", TRUE, ModuleSpec(Target, RealLoader)) }

\* os.environ with LOVELY_TENSORS unset, and set to v.
NoEnv == <<>>
Env(v) == [k \in {"LOVELY_TENSORS"} |-> v]

\* The processes explored: what sys.modules holds under "torch" and what the
\* default finders can locate.  The latter is only ever consulted for a
\* name sys.modules has no entry for.
Processes ==
    { <<Absent, a>> : a \in {"package", "namespace", "absent"} }
    \cup { <<e, "package">> : e \in TorchEntries \ {Absent} }

InitWith(envs, procs) ==
    /\ environ \in envs
    /\ \E p \in procs :
          /\ modules = [n \in Names |-> IF n = Target THEN p[1] ELSE Absent]
          /\ on_path = p[2]
    /\ meta_path = DefaultMetaPath
    /\ stderr = <<>>
    /\ nfinders = 0
    /\ patchCalls = 0
    /\ applied = 0
    /\ boot = "not_run"
    /\ failed = FALSE
    /\ last = NoOp
    /\ prev = Summary(NoOp)

\* The state before the start-up code has run: the flag unset or set to a
\* truthy value, every process.
Init == InitWith({NoEnv, Env(<<"T", "r", "u", "e", " ">>)}, Processes)

\* The same with every flag value, for the processes in which torch is not
\* loaded, loaded and unpatched, loaded and patched.
InitFlags ==
    InitWith({NoEnv} \cup {Env(v) : v \in FlagValues},
             { <<Absent, "package">>,
               <<Entry("module", "type", FALSE, ModuleSpec(Target, RealLoader)),
                 "package">>,
               <<Entry("module", "type", TRUE, ModuleSpec(Target, RealLoader)),
                 "package">> })

\* The state after an operation op that did r.
Complete(op, name, self, r) ==
    /\ patchCalls + r.calls <= MaxPatchCalls
    /\ nfinders + r.created <= MaxFinders
    /\ WrapDepth(r.modules[Target].spec.loader) <= MaxWrapDepth
    /\ modules' = r.modules
    /\ meta_path' = r.meta_path
    /\ stderr' = stderr \o r.diags
    /\ nfinders' = nfinders + r.created
    /\ patchCalls' = patchCalls + r.calls
    /\ applied' = applied + r.applications
    /\ last' = [op |-> op, name |-> name, self |-> self, exc |-> r.raised,
                how |-> r.how, events |-> r.events, calls |-> r.calls,
                applications |-> r.applications, triggers |-> r.triggers,
                probes |-> r.probes, diags |-> r.diags, created |-> r.created,
                consults |-> r.consults, spec |-> r.spec,
                meta_path0 |-> meta_path, modules0 |-> modules,
                failed0 |-> failed]
    /\ prev' = Summary(last)
    /\ boot' = IF op = "startup" /\ boot = "not_run" THEN r.how ELSE boot
    /\ failed' = IF op = "startup"
                 THEN r.calls > r.applications
                 ELSE failed \/ (op = "import" /\ r.calls > r.applications)
    /\ UNCHANGED <<environ, on_path>>

\* The start-up hook runs the module's top-level code.
Startup ==
    \E po \in Outcomes :
        Complete("startup", "none", 0,
                 startup_code(environ, modules, meta_path, nfinders, po))

\* User code imports a module.
Import ==
    \E name \in Names, ro \in RealOutcomes, po \in Outcomes :
        Complete("import", name, 0,
                 import_module(name, modules, meta_path, on_path, ro, po))

\* User code looks a module up without importing it.
UserFindSpec ==
    \E name \in Names :
        Complete("lookup", name, 0,
                 user_find_spec(name, modules, meta_path, on_path))

\* A finder object is consulted directly.
CallFindSpec ==
    \E id \in 1..nfinders, name \in Names :
        Complete("consult", name, id,
                 call_find_spec(TorchFinder(id), name, modules, meta_path, on_path))

\* The patch trigger is called directly.
CallTrigger ==
    \E po \in Outcomes :
        Complete("trigger", "none", 0,
                 call_after_import_torch(modules, meta_path, po))

Next == Startup \/ Import \/ UserFindSpec \/ CallFindSpec \/ CallTrigger

Spec == Init /\ [][Next]_vars

SpecFlags == InitFlags /\ [][Next]_vars

TypeOK ==
    /\ DOMAIN modules = Names
    /\ nfinders \in 0..MaxFinders
    /\ patchCalls \in 0..MaxPatchCalls
    /\ applied \in 0..patchCalls
    /\ Len(stderr) <= patchCalls
    /\ boot \in {"not_run", "disabled", "direct", "installed", "present"}
    /\ failed \in BOOLEAN

----------------------------------------------------------------------------
(* Properties.                                                             *)

\* The _TorchFinder instances in a hook registry.
TorchFindersIn(mp) == {i \in 1..Len(mp) : IsTorchFinder(mp[i])}

\* An entry of sys.modules is a module whose Tensor type has the marker.
HasMarker(entry) ==
    entry.kind = "module" /\ entry.Tensor = "type" /\ entry.rgb

\* The last operation was an `import torch` that found torch outside
\* sys.modules, loaded it and executed it to the end.
ImportedTorch ==
    last.op = "import" /\ last.name = Target /\ last.how = "executed"

\* C1: when the first run of the start-up code found the flag truthy and
\* torch not loaded (and so installed the finder), then whatever lookups
\* and imports came in between, the patch routine has been invoked by the
\* time the import that first loads and executes torch completes.
C1_FirstImportPatches ==
    (boot = "installed" /\ ImportedTorch) => patchCalls >= 1

\* C2: in an import of torch, the patch trigger and the patch routine run
\* only after the real loader's exec_module has returned, never before or
\* during it, and not at all if it raised.
C2_PatchAfterExec ==
    (last.op = "import" /\ last.name = Target) =>
        /\ \A i \in DOMAIN last.events :
              last.events[i] \in {"trigger", "patch"} =>
                  \E j \in 1..(i - 1) : last.events[j] = "exec_return"
        /\ (\E i \in DOMAIN last.events : last.events[i] = "exec_raise") =>
              (last.triggers = 0 /\ last.calls = 0)

\* C2 witness: an import ran torch's module code and then the trigger,
\* which invoked the patch routine.
C2_Witness ==
    /\ ImportedTorch
    /\ last.events = <<"exec_start", "exec_return", "trigger", "patch">>

C4_PatchedAtMostOnce ==
    /\ applied <= 1
    /\ last.applications >= 1 => ~HasMarker(last.modules0[Target])
    /\ HasMarker(last.modules0[Target]) => last.calls = 0

\* C4 witness: after the marker was added, a further call of the trigger
\* came and did not invoke the patch routine.
C4_Witness ==
    /\ applied = 1
    /\ last.op = "trigger"
    /\ HasMarker(last.modules0[Target])
    /\ last.calls = 0

\* The flag values that enable the mechanism, written out.
TruthyFlags ==
    { <<"1">>, <<" ", "1", "\n">>,
      <<"t", "r", "u", "e">>, <<"T", "R", "U", "E">>, <<"T", "r", "u", "e", " ">>,
      <<"y", "e", "s">>, <<"\t", "Y", "E", "S">> }

TruthyEnv == environ # NoEnv /\ environ["LOVELY_TENSORS"] \in TruthyFlags

\* C5: a run of the start-up code does something (calls a probe) exactly
\* when LOVELY_TENSORS, trimmed and lower-cased, is 1, true or yes; with
\* any other value or none it constructs no finder, calls no probe and no
\* trigger, invokes no patch routine, prints nothing and leaves
\* sys.meta_path and sys.modules as they were.
C5_FlagGatesEverything ==
    last.op = "startup" =>
        /\ (last.probes > 0) <=> TruthyEnv
        /\ ~TruthyEnv =>
              /\ last.created = 0 /\ last.probes = 0 /\ last.triggers = 0
              /\ last.calls = 0 /\ last.diags = <<>> /\ last.exc = NoExc
              /\ meta_path = last.meta_path0
              /\ modules = last.modules0

\* C5 witness: the start-up code ran with the flag set to "tr ue", a value
\* that is not truthy, in a process where torch is loaded and unpatched.
C5_Witness ==
    /\ last.op = "startup"
    /\ environ = Env(<<"t", "r", " ", "u", "e">>)
    /\ last.modules0[Target].kind = "module"
    /\ ~HasMarker(last.modules0[Target])

\* C6 as claimed: when the first of two successive calls of the patch
\* trigger finds torch unpatched and invokes the patch routine, the two
\* calls invoke it exactly once between them: the second call finds the
\* marker and does not invoke it.
C6_TwoCallsOneInvocation ==
    (last.op = "trigger" /\ prev \in {"trigger_patched", "trigger_raised"}) =>
        (1 + last.calls = 1 /\ HasMarker(last.modules0[Target]))

\* C6 as amended: when the first of two successive calls invoked the patch
\* routine and it returned, the second call does not invoke it; when the
\* first call's invocation raised, the second invokes it again; when torch
\* was patched before the first call, neither invokes it.
C6_SecondCallAfterSuccess ==
    (last.op = "trigger" /\ prev # "other") =>
        /\ prev = "trigger_patched" => (last.calls = 0 /\ last.exc = NoExc)
        /\ prev = "trigger_raised" => last.calls = 1
        /\ prev = "trigger_noop" => last.calls = 0

\* C6 witness: the second of two successive calls found the marker the
\* first one's invocation had added.
C6_Witness ==
    /\ last.op = "trigger"
    /\ prev = "trigger_patched"
    /\ HasMarker(last.modules0[Target])

\* C7: an operation in which the patch routine raised printed exactly one
\* diagnostic, the one of that exception, was left by that same exception,
\* and leaves torch's Tensor without the marker.
C7_DiagnoseAndReraise ==
    last.calls > last.applications =>
        /\ Len(last.diags) = 1
        /\ last.exc = last.diags[1]
        /\ last.exc # NoExc
        /\ Len(stderr) >= 1 /\ stderr[Len(stderr)] = last.exc
        /\ ~HasMarker(modules[Target])

\* C7 witness: a direct call of the trigger on a loaded torch in which the
\* patch routine raised.
C7_Witness ==
    /\ last.op = "trigger"
    /\ last.modules0[Target].kind = "module"
    /\ last.calls = 1
    /\ last.exc = "RuntimeError"

\* C8: a finder that is in sys.meta_path and is consulted once is out of
\* sys.meta_path afterwards if the name was torch, whatever the
\* resolution did, and still in it, sys.meta_path unchanged, if not.
C8_OneShotRemoval ==
    /\ (last.op = "consult" /\ TorchFinder(last.self) \in
            {last.meta_path0[i] : i \in DOMAIN last.meta_path0}) =>
          IF last.name = Target
          THEN TorchFindersIn(meta_path) = {}
          ELSE meta_path = last.meta_path0
    /\ (last.op \in {"import", "lookup"}
            /\ TorchFindersIn(last.meta_path0) # {}) =>
          IF last.name = Target /\ last.modules0[Target].kind = "absent"
          THEN last.consults = 1 /\ TorchFindersIn(meta_path) = {}
          ELSE last.consults = 0 /\ meta_path = last.meta_path0

\* C8 witness: the installed finder was consulted for torch, the delegated
\* resolution raised, and the finder is gone.
C8_Witness ==
    /\ last.op = "consult"
    /\ last.name = Target
    /\ TorchFindersIn(last.meta_path0) # {}
    /\ last.exc = "ValueError"
    /\ TorchFindersIn(meta_path) = {}

\* C9: a run of the start-up code with a truthy flag and torch loaded
\* constructs no finder and leaves sys.meta_path alone; it invokes the
\* patch routine once if torch was unpatched, and not at all, without
\* error, if it was patched.  A process whose first run found torch
\* loaded never gets a finder.
C9_LoadedAtStartup ==
    /\ (last.op = "startup" /\ TruthyEnv
            /\ last.modules0[Target].kind = "module") =>
          /\ last.created = 0
          /\ meta_path = last.meta_path0
          /\ last.triggers = 1
          /\ IF HasMarker(last.modules0[Target])
             THEN last.calls = 0 /\ last.exc = NoExc /\ last.diags = <<>>
                  /\ modules = last.modules0
             ELSE last.calls = 1
    /\ boot = "direct" => (nfinders = 0 /\ TorchFindersIn(meta_path) = {})

\* C9 witness: the start-up code found torch loaded and unpatched and
\* invoked the patch routine.
C9_Witness ==
    /\ last.op = "startup"
    /\ last.modules0[Target].kind = "module"
    /\ ~HasMarker(last.modules0[Target])
    /\ last.calls = 1
    /\ last.applications = 1

\* C10: an `import torch` in which the wrapping loader's trigger was left
\* by the patch routine's exception fails with that exception, and torch
\* is not in sys.modules afterwards.
C10_PatchFailureFailsImport ==
    (last.op = "import" /\ last.name = Target
        /\ last.calls > last.applications) =>
        /\ last.exc # NoExc
        /\ last.diags = <<last.exc>>
        /\ last.how = "exec_failed"
        /\ modules[Target].kind = "absent"

\* C10 witness: torch's module code ran to the end, the patch routine
\* raised, and the import failed.
C10_Witness ==
    /\ last.op = "import" /\ last.name = Target
    /\ last.events = <<"exec_start", "exec_return", "trigger", "patch">>
    /\ last.exc = "RuntimeError"
    /\ modules[Target].kind = "absent"

\* C11: find_spec of a finder, called for a name other than torch, returns
\* None without raising and leaves sys.meta_path and sys.modules as they
\* were: a finder that was in sys.meta_path is still there, at the same
\* place, and one that was not is still not.  This holds in every state,
\* so after any number of such calls.
C11_OtherNameChangesNothing ==
    (last.op = "consult" /\ last.name # Target) =>
        /\ last.spec = NoSpec
        /\ last.exc = NoExc
        /\ meta_path = last.meta_path0
        /\ modules = last.modules0
        /\ last.consults = 0
        /\ last.calls = 0 /\ last.triggers = 0 /\ last.diags = <<>>

\* C11 witness: a finder that is in sys.meta_path was asked for another
\* name and is still the first entry of sys.meta_path.
C11_Witness ==
    /\ last.op = "consult"
    /\ last.name \in OtherNames
    /\ Len(last.meta_path0) > 0
    /\ last.meta_path0[1] = TorchFinder(last.self)
    /\ meta_path[1] = TorchFinder(last.self)

\* What the finder asked for torch returns, given what the delegated
\* resolution d yielded: d's spec itself when it is None or has no loader,
\* else d's spec with a _WrappedTorchLoader around d's loader.
C12_Returned(d, spec) ==
    IF ~d.spec.found \/ d.spec.loader = NoLoader
    THEN spec = d.spec /\ ~IsWrapped(spec.loader)
    ELSE /\ spec.found
         /\ spec.name = d.spec.name
         /\ spec.loader.cls = "_WrappedTorchLoader"
         /\ spec.loader.real_loader = d.spec.loader

\* The same for a delegated resolution that may have raised: the exception
\* leaves find_spec as it is.
C12_Delegated(d, o) ==
    IF d.raised # NoExc
    THEN o.exc = d.raised /\ o.spec = NoSpec
    ELSE o.exc = NoExc /\ C12_Returned(d, o.spec)

\* C12: find_spec of a finder, called for torch, returns what
\* importlib.util.find_spec("torch") yields when that is None or a spec
\* without loader, and no _WrappedTorchLoader is made; otherwise it returns
\* that spec with its loader replaced by a _WrappedTorchLoader whose
\* real_loader is the loader the spec had.  With torch not in sys.modules
\* and no other _TorchFinder installed this is None for a torch that is
\* not installed, the loaderless spec for a namespace package, and the
\* spec with the wrapped source loader for a package.
C12_WrapOrPassThrough ==
    (last.op = "consult" /\ last.name = Target) =>
        /\ C12_Delegated(
               util_find_spec(Target, last.modules0,
                              remove_self(last.meta_path0,
                                          TorchFinder(last.self)),
                              on_path, MaxRecursion),
               last)
        /\ (/\ last.modules0[Target].kind = "absent"
            /\ TorchFindersIn(last.meta_path0) \subseteq {1}
            /\ TorchFindersIn(last.meta_path0) # {}
                   => last.meta_path0[1] = TorchFinder(last.self)) =>
              /\ last.exc = NoExc
              /\ last.spec = CASE on_path = "package" ->
                                    ModuleSpec(Target,
                                               WrappedTorchLoader(RealLoader))
                               [] on_path = "namespace" ->
                                    ModuleSpec(Target, NoLoader)
                               [] OTHER -> NoSpec

\* C12 witness: the finder was asked for torch, the delegated resolution
\* found the package, and the spec returned holds a _WrappedTorchLoader
\* around the source loader.
C12_Witness ==
    /\ last.op = "consult"
    /\ last.name = Target
    /\ last.modules0[Target].kind = "absent"
    /\ last.spec = ModuleSpec(Target, WrappedTorchLoader(RealLoader))

\* The elements of a sequence.
Range(seq) == {seq[i] : i \in 1..Len(seq)}

\* The _TorchFinder instances that existed before the last operation and
\* were not in sys.meta_path then: each was installed when it was made, so
\* each has fired.
FiredBefore ==
    {i \in 1..(nfinders - last.created) :
        TorchFinder(i) \notin Range(last.meta_path0)}

\* C13: a _TorchFinder instance that is out of sys.meta_path is not put
\* back by any operation (a lookup, an import, a direct call of find_spec
\* or of the patch trigger, a run of the start-up code); and no lookup,
\* import or trigger call puts any _TorchFinder into a sys.meta_path that
\* holds none.
C13_FiredIsTerminal ==
    /\ \A i \in FiredBefore : TorchFinder(i) \notin Range(meta_path)
    /\ (last.op \notin {"none", "startup"}
            /\ TorchFindersIn(last.meta_path0) = {}) =>
          TorchFindersIn(meta_path) = {}

\* C13 witness: the finder had fired, and a later `import torch` loaded
\* and executed torch with the finder still out of sys.meta_path.
C13_Witness ==
    /\ 1 \in FiredBefore
    /\ ImportedTorch
    /\ TorchFinder(1) \notin Range(meta_path)

\* C14: no operation invokes the patch routine more than once; and once
\* the routine has raised in a run of the start-up code or in an import
\* through the wrapping loader, no later import, lookup or direct find_spec
\* call (of torch or of any other name) invokes it, as long as the
\* start-up code is not run again.
C14_NoRetry ==
    /\ last.calls <= 1
    /\ (last.failed0 /\ last.op \in {"import", "lookup", "consult"}) =>
          last.calls = 0 /\ last.triggers = 0

\* C14 witness: the patch routine had raised, and a later `import torch`
\* loaded and executed torch without invoking it.
C14_Witness ==
    /\ last.failed0
    /\ ImportedTorch
    /\ last.calls = 0
    /\ patchCalls > applied

\* C15: an operation in which no _TorchFinder was asked for torch (a run
\* of the start-up code, a trigger call, an import or lookup of another
\* name, an import or lookup of torch answered from sys.modules) leaves
\* every _TorchFinder of sys.meta_path in it; unless it is the start-up
\* code installing a finder, it leaves sys.meta_path as it was.
C15_OnlyTargetLookupRemoves ==
    (last.op # "none" /\ (last.name # Target \/ last.consults = 0)) =>
        /\ \A i \in TorchFindersIn(last.meta_path0) :
               last.meta_path0[i] \in Range(meta_path)
        /\ last.created = 0 => meta_path = last.meta_path0

\* C15 witness: with the finder installed another module was imported and
\* executed, and the finder is still installed.
C15_Witness ==
    /\ last.op = "import"
    /\ last.name \in OtherNames
    /\ last.how = "executed"
    /\ TorchFindersIn(last.meta_path0) # {}
    /\ TorchFindersIn(meta_path) # {}

\* The last operation was a find_spec call for torch on a finder that was
\* not in sys.meta_path.
ConsultedWhenRemoved ==
    /\ last.op = "consult"
    /\ last.name = Target
    /\ TorchFinder(last.self) \notin Range(last.meta_path0)

\* C16: find_spec called for torch on a finder that is not in
\* sys.meta_path gets no error from the removal: it raises only what
\* importlib.util.find_spec("torch") raises on the unchanged
\* sys.meta_path, and returns what that yields, wrapped as on a first
\* lookup.  With torch not in sys.modules and no other finder installed
\* it raises nothing, leaves sys.meta_path as it was and returns None, the
\* loaderless spec or the spec with the wrapped source loader.
C16_DoubleRemovalTolerated ==
    ConsultedWhenRemoved =>
        /\ C12_Delegated(
               util_find_spec(Target, last.modules0, last.meta_path0, on_path,
                              MaxRecursion),
               last)
        /\ last.consults >= 1
        /\ (last.modules0[Target].kind = "absent"
               /\ TorchFindersIn(last.meta_path0) = {}) =>
              /\ last.exc = NoExc
              /\ meta_path = last.meta_path0
              /\ last.spec.found = (on_path # "absent")
              /\ IsWrapped(last.spec.loader) = (on_path = "package")
              /\ on_path = "package" => last.spec.loader.real_loader = RealLoader

\* C16 witness: the finder had been removed by a lookup of torch; asked
\* for torch again it returned the spec with the wrapped source loader.
C16_Witness ==
    /\ ConsultedWhenRemoved
    /\ last.exc = NoExc
    /\ last.spec.found
    /\ last.spec.loader = WrappedTorchLoader(RealLoader)
    /\ meta_path = last.meta_path0

\* C17: torch_loaded() is true exactly when sys.modules holds a module
\* under "torch" (not for a missing entry, None or another object), and
\* torch_patched() exactly when it holds a module whose Tensor attribute
\* is there, is not None and has the attribute rgb.  The start-up code
\* and the trigger, which call them, branch accordingly: with a truthy
\* flag the start-up code takes the direct path exactly for a module, the
\* trigger invokes the patch routine exactly when the marker is missing,
\* and a trigger call that finds the marker raises nothing and changes
\* nothing.
C17_ProbesExact ==
    /\ torch_loaded(modules) = (modules[Target].kind = "module")
    /\ torch_patched(modules) =
          (/\ modules[Target].kind = "module"
           /\ modules[Target].Tensor = "type"
           /\ modules[Target].rgb)
    /\ (last.op = "startup" /\ TruthyEnv) =>
          /\ last.probes >= 1
          /\ (last.how = "direct") = (last.modules0[Target].kind = "module")
    /\ last.op = "trigger" =>
          /\ last.probes = 1
          /\ (last.calls = 0) = HasMarker(last.modules0[Target])
          /\ last.calls = 0 =>
                /\ last.exc = NoExc
                /\ modules = last.modules0
                /\ meta_path = last.meta_path0

\* C17 witness: the start-up code found None under "torch" in sys.modules,
\* took torch for not loaded and installed the finder.
C17_Witness ==
    /\ last.op = "startup"
    /\ last.modules0[Target].kind = "None"
    /\ last.how = "installed"
    /\ ~torch_loaded(modules)
    /\ ~torch_patched(modules)

\* The _TorchFinder objects that could be asked for torch in the last
\* operation: those in sys.meta_path and, for a direct find_spec call, the
\* finder called.
Askable ==
    {last.meta_path0[i] : i \in TorchFindersIn(last.meta_path0)}
    \cup (IF last.op = "consult" THEN {TorchFinder(last.self)} ELSE {})

\* C18: no operation ends in RecursionError, and a _TorchFinder is entered
\* for torch at most once per finder object that could be asked: the
\* delegated resolution of a finder never comes back to that finder.  An
\* import or lookup of torch enters the installed finder at most once,
\* and a finder called for torch is out of sys.meta_path when the call
\* returns or raises.
C18_NoReentry ==
    /\ last.exc # "RecursionError"
    /\ last.consults <= Cardinality(Askable)
    /\ last.op \in {"import", "lookup"} => last.consults <= 1
    /\ (last.op = "consult" /\ last.name = Target) =>
          /\ last.consults >= 1
          /\ TorchFinder(last.self) \notin Range(meta_path)

\* C18 witness: a lookup of torch entered the installed finder once, and
\* its delegated resolution found the package through the default finders.
C18_Witness ==
    /\ last.op = "lookup"
    /\ last.name = Target
    /\ TorchFindersIn(last.meta_path0) # {}
    /\ last.consults = 1
    /\ last.exc = NoExc
    /\ last.spec = ModuleSpec(Target, WrappedTorchLoader(RealLoader))

\* C19: a run of the start-up code that installs a finder leaves
\* sys.meta_path as the new finder followed by the list as it was; an
\* installed _TorchFinder is the first entry of sys.meta_path in every
\* state; and an import or lookup of torch that goes to sys.meta_path with
\* a finder installed asks that finder, so that what the default finders
\* locate comes back with a wrapped loader.
C19_InstalledFirst ==
    /\ (last.op = "startup" /\ last.created = 1) =>
          meta_path = <<TorchFinder(nfinders)>> \o last.meta_path0
    /\ TorchFindersIn(meta_path) \subseteq {1}
    /\ (/\ last.op \in {"import", "lookup"}
        /\ last.name = Target
        /\ last.modules0[Target].kind = "absent"
        /\ TorchFindersIn(last.meta_path0) # {}) =>
          /\ last.consults = 1
          /\ last.spec.found => last.spec.loader.cls \in {"_WrappedTorchLoader", "None"}
          /\ on_path = "package" =>
                last.spec = ModuleSpec(Target, WrappedTorchLoader(RealLoader))

\* C19 witness: the start-up code installed the finder in front of the
\* default finders, whose order is as before.
C19_Witness ==
    /\ last.op = "startup"
    /\ last.how = "installed"
    /\ Len(last.meta_path0) = 2
    /\ meta_path[1] = TorchFinder(nfinders)
    /\ SubSeq(meta_path, 2, 3) = last.meta_path0

====
